---- MODULE Spec2Model ----
(***************************************************************************)
(* Weather Assistant (find_weather.py): a Streamlit chat script around a   *)
(* pydantic-ai agent with one tool, get_weather_forecast, that queries the *)
(* OpenWeatherMap current-weather endpoint.                                *)
(*                                                                         *)
(* Text is modelled as a sequence of chunks.  A literal fragment of the    *)
(* source (an f-string part, a key name) is one chunk; a variable string   *)
(* (a city, a provider description, a credential) is a sequence of         *)
(* one-character chunks, so that containment and case conversion are       *)
(* computed and not assumed.                                               *)
(***************************************************************************)
EXTENDS Integers, Sequences, FiniteSets, TLC

\* Number of chat turns explored in one session.
MaxTurns == 2

\* Number of direct tool invocations explored by ToolSpec.
MaxCalls == 2

----------------------------------------------------------------------------
(* Text helpers *)

\* str.upper() on one character.
upper(c) ==
    CASE c = "l" -> "L"
      [] c = "r" -> "R"
      [] OTHER   -> c

\* str.lower() on one character.
lower(c) ==
    CASE c = "L" -> "l"
      [] c = "R" -> "r"
      [] OTHER   -> c

\* str.capitalize(): first character upper-cased, every other one lower-cased.
capitalize(s) ==
    IF s = <<>> THEN <<>>
    ELSE <<upper(s[1])>> \o [i \in 1..(Len(s) - 1) |-> lower(s[i + 1])]

\* Optional JSON fields / Python None.
Some(t) == [has |-> TRUE, val |-> t]
Absent == [has |-> FALSE, val |-> <<>>]

----------------------------------------------------------------------------
(* Environment and credentials *)

GroqName == <<"GROQ_API_KEY">>
WeatherName == <<"OPENWEATHER_API_KEY">>

GroqSecret == <<"g", "1">>
WeatherSecret == <<"k", "7">>

\* What os.environ can hold for one variable after load_dotenv():
\* unset, set to the empty string, or set to a value.
EnvValues(secret) == {Absent, Some(<<>>), Some(secret)}

\* os.getenv(name): the value, or None.
getenv(env, name) == env[name]

\* Python truthiness of an os.getenv result (`not X` is its negation).
Truthy(v) == v.has /\ v.val # <<>>

NoFatal == <<>>

\* Mutant: the checks read `is None` instead of `not`, so an empty value passes.
credential_check_NoneOnly(env) ==
    IF ~getenv(env, "GROQ_API_KEY").has
    THEN <<"X ">> \o GroqName \o <<" not found in .env">>
    ELSE IF ~getenv(env, "OPENWEATHER_API_KEY").has
         THEN <<"X ">> \o WeatherName \o <<" not found in .env">>
         ELSE NoFatal

\* Lines 20-24: the RuntimeError raised at import, or NoFatal.
credential_check(env) ==
    IF ~Truthy(getenv(env, "GROQ_API_KEY"))
    THEN <<"X ">> \o GroqName \o <<" not found in .env">>
    ELSE IF ~Truthy(getenv(env, "OPENWEATHER_API_KEY"))
         THEN <<"X ">> \o WeatherName \o <<" not found in .env">>
         ELSE NoFatal

----------------------------------------------------------------------------
(* Provider responses *)

Cities == {<<"L", "o">>, <<"r", "L">>}

Names == {<<"L", "o">>}
Descriptions == {<<"l", "r">>, <<"l", " ", "R">>, <<"L", "R">>}
Temps == {142, -30}

Body(kind, message, name, weather, description, main, temp) ==
    [kind |-> kind, message |-> message, name |-> name, weather |-> weather,
     description |-> description, main |-> main, temp |-> temp]

\* A body that is not JSON (an HTML error page, an empty body).
NotJson == Body("notjson", Absent, Absent, "absent", <<>>, "absent", 0)
\* A JSON body that is not an object.
JsonList == Body("list", Absent, Absent, "absent", <<>>, "absent", 0)

ProviderMessage == <<"city not found">>

ErrorBodies ==
    { Body("object", Some(ProviderMessage), Absent, "absent", <<>>, "absent", 0),
      Body("object", Absent, Absent, "absent", <<>>, "absent", 0) }

WellFormedBodies ==
    { Body("object", Absent, Some(n), "ok", d, "ok", t) :
        n \in Names, d \in Descriptions, t \in Temps }

WellFormed(body) ==
    /\ body.kind = "object"
    /\ body.name.has
    /\ body.weather = "ok"
    /\ body.main = "ok"

\* HTTP 200 bodies with one of the three required fields missing.
MalformedBodies ==
    LET n == <<"L", "o">>
        d == <<"l", "r">>
    IN  { Body("object", Absent, Absent, "ok", d, "ok", 142),
          Body("object", Absent, Some(n), "absent", <<>>, "ok", 142),
          Body("object", Absent, Some(n), "empty", <<>>, "ok", 142),
          Body("object", Absent, Some(n), "nodesc", <<>>, "ok", 142),
          Body("object", Absent, Some(n), "ok", d, "absent", 0),
          Body("object", Absent, Some(n), "ok", d, "notemp", 0) }

Bodies == {NotJson, JsonList} \cup ErrorBodies \cup WellFormedBodies \cup MalformedBodies

Statuses == {200, 404}

\* What the provider does with one request: the transport fails, or a
\* response with a status and a body arrives.
Provider(transport, status, body) ==
    [transport |-> transport, status |-> status, body |-> body]

TransportFailures ==
    { Provider(t, 0, NotJson) : t \in {"connection_error", "read_timeout"} }

ProviderResponses ==
    TransportFailures \cup { Provider("ok", s, b) : s \in Statuses, b \in Bodies }

\* The responses explored inside chat turns: one of each outcome class.
SessionResponses ==
    TransportFailures
    \cup { Provider("ok", 404, b) : b \in ErrorBodies }
    \cup { Provider("ok", 200, Body("object", Absent, Absent, "ok", <<"l", "r">>, "ok", 142)) }
    \cup { Provider("ok", 200, Body("object", Absent, Some(<<"L", "o">>), "ok", <<"l", "r">>, "ok", 142)) }

----------------------------------------------------------------------------
(* The tool: get_weather_forecast *)

WeatherForecast(location, description, temperature_celsius) ==
    [location |-> location, description |-> description,
     temperature_celsius |-> temperature_celsius]

NoForecast == WeatherForecast(<<>>, <<>>, 0)

Exc(type, msg) == [type |-> type, msg |-> msg]
NoExc == Exc("none", <<>>)

Returned(value) == [raised |-> FALSE, value |-> value, exc |-> NoExc]
Raised(type, msg) == [raised |-> TRUE, value |-> NoForecast, exc |-> Exc(type, msg)]

\* Lines 102-107: the request sent to the provider.
weather_request(city, key) ==
    [url |-> "https://api.openweathermap.org/data/2.5/weather",
     q |-> city, appid |-> key, units |-> "metric", timeout |-> 15]

\* str() of the exception requests.get raises when the transport fails.  A
\* connection failure reports the URL it could not reach, query string
\* included; a read timeout reports only the host and the timeout.
transport_error(kind, req) ==
    IF kind = "connection_error"
    THEN Raised("ConnectionError",
                <<"HTTPSConnectionPool(host='api.openweathermap.org', port=443): Max retries exceeded with url: /data/2.5/weather?q=">>
                \o req.q \o <<"&appid=">> \o req.appid \o <<"&units=metric">>)
    ELSE Raised("ReadTimeout",
                <<"HTTPSConnectionPool(host='api.openweathermap.org', port=443): Read timed out. (read timeout=15)">>)

\* Lines 112-114: the non-200 branch, entered after res.json() succeeded.
status_failure(city, body) ==
    IF body.kind = "list"
    THEN Raised("AttributeError", <<"'list' object has no attribute 'get'">>)
    ELSE Raised("ValueError",
                <<"Could not fetch weather for '">> \o city \o <<"': ">>
                \o (IF body.message.has THEN body.message.val ELSE <<"Unknown error">>))

\* Lines 116-120: the record is built field by field, left to right; the
\* first lookup that fails raises.
build_forecast(body) ==
    IF body.kind = "list"
    THEN Raised("TypeError", <<"list indices must be integers or slices, not str">>)
    ELSE IF ~body.name.has THEN Raised("KeyError", <<"'name'">>)
    ELSE IF body.weather = "absent" THEN Raised("KeyError", <<"'weather'">>)
    ELSE IF body.weather = "empty" THEN Raised("IndexError", <<"list index out of range">>)
    ELSE IF body.weather = "nodesc" THEN Raised("KeyError", <<"'description'">>)
    ELSE IF body.main = "absent" THEN Raised("KeyError", <<"'main'">>)
    ELSE IF body.main = "notemp" THEN Raised("KeyError", <<"'temp'">>)
    ELSE Returned(WeatherForecast(body.name.val, capitalize(body.description), body.temp))

\* Lines 98-120.
get_weather_forecast(city, key, provider) ==
    IF provider.transport # "ok"
    THEN transport_error(provider.transport, weather_request(city, key))
    ELSE IF provider.body.kind = "notjson"
    THEN Raised("JSONDecodeError", <<"Expecting value: line 1 column 1 (char 0)">>)
    ELSE IF provider.status # 200
    THEN status_failure(city, provider.body)
    ELSE build_forecast(provider.body)

----------------------------------------------------------------------------
(* The agent and the LLM runtime *)

SystemPrompt ==
    <<"You are a helpful weather assistant. When a user asks about weather, extract the city name and call the get_weather_forecast tool. Respond in a friendly, clear sentence.">>

\* Slider positions explored, in hundredths (line 58: 0.0 to 1.0, step 0.05).
SliderValues == {20, 100}
DefaultTemperature == 20

\* Lines 82-92 with the tool registered at line 98.
weather_agent(temperature) ==
    [built |-> TRUE, model |-> "groq:llama-3.1-8b-instant",
     temperature |-> temperature, output_type |-> "str",
     system_prompt |-> SystemPrompt, tools |-> {"get_weather_forecast"}]

NoAgent ==
    [built |-> FALSE, model |-> "", temperature |-> 0, output_type |-> "",
     system_prompt |-> <<>>, tools |-> {}]

Entry(role, content) == [role |-> role, content |-> content]

\* Line 158: what run_sync(user_input) submits to the runtime.  No
\* message_history is passed, so the messages are the current input alone.
run_request(agent, user_input) ==
    [system_prompt |-> agent.system_prompt, tools |-> agent.tools,
     temperature |-> agent.temperature,
     messages |-> <<Entry("user", user_input)>>]

\* One tool invocation as the runtime sees it.
Invocation(city, provider, outcome) ==
    [city |-> city, provider |-> provider, outcome |-> outcome]

\* The city arguments the model extracts inside chat turns.
PlanCities == {<<"L", "o">>}

\* What the model may do with a request: answer directly, call the tool
\* once with a city it extracted, or fail (the hosted model is unreachable).
Plans ==
    { [kind |-> k, city |-> <<>>] : k \in {"answer", "api_error"} }
    \cup { [kind |-> "tool", city |-> c] : c \in PlanCities }

DirectAnswer == <<"I can only help with weather questions.">>

\* The sentence the model composes from a tool result.
Narrate(f) ==
    <<"The weather in ">> \o f.location \o <<" is ">> \o f.description
    \o <<" at ">> \o <<ToString(f.temperature_celsius)>> \o <<" C.">>

RunResult(request, raised, output, exc, invocations) ==
    [request |-> request, raised |-> raised, output |-> output, exc |-> exc,
     invocations |-> invocations]

\* Lines 158-159: weather_agent.run_sync(user_input).  An exception raised
\* by the tool function is not a retry request to the model: it leaves
\* run_sync as raised.
run_sync(agent, user_input, plan, key, provider) ==
    LET request == run_request(agent, user_input)
        outcome == get_weather_forecast(plan.city, key, provider)
        call    == Invocation(plan.city, provider, outcome)
    IN  CASE plan.kind = "answer" ->
               RunResult(request, FALSE, DirectAnswer, NoExc, <<>>)
          [] plan.kind = "api_error" ->
               RunResult(request, TRUE, <<>>,
                         Exc("ModelHTTPError", <<"status_code: 429, model_name: llama-3.1-8b-instant">>),
                         <<>>)
          [] OTHER ->
               IF outcome.raised
               THEN RunResult(request, TRUE, <<>>, outcome.exc, <<call>>)
               ELSE RunResult(request, FALSE, Narrate(outcome.value), NoExc, <<call>>)

----------------------------------------------------------------------------
(* The chat shell *)

Greeting ==
    <<"Hi! Ask me about the weather in any city (e.g., *What's the weather in London?*)">>

\* Lines 127-132: the transcript a new session starts with.
Seed == <<Entry("assistant", Greeting)>>

\* Lines 126-132: the transcript is seeded only when the session has no
\* "messages" key.
session_init(has, msgs) ==
    IF ~has THEN Seed ELSE msgs

\* Mutant: the handler reads `except ValueError`.
except_ValueError(exc) ==
    exc.type \in {"ValueError", "JSONDecodeError"}

\* Line 166: `except Exception` catches every exception class below.
except_Exception(exc) ==
    exc.type \in {"ValueError", "KeyError", "IndexError", "TypeError",
                  "AttributeError", "JSONDecodeError", "ConnectionError",
                  "ReadTimeout", "ModelHTTPError"}

WarningMark == <<"(warning sign) ">>

\* Line 167: f"(warning sign) {str(e)}".
error_msg(exc) == WarningMark \o exc.msg

\* Mutant: the except branch renders the error but does not append it.
turn_messages_ErrorNotAppended(msgs, user_input, r) ==
    LET withUser == Append(msgs, Entry("user", user_input))
    IN  IF ~r.raised THEN Append(withUser, Entry("assistant", r.output))
        ELSE withUser

\* Lines 150-171: the transcript after the turn.
turn_messages(msgs, user_input, r) ==
    LET withUser == Append(msgs, Entry("user", user_input))
    IN  IF ~r.raised THEN Append(withUser, Entry("assistant", r.output))
        ELSE IF except_Exception(r.exc)
             THEN Append(withUser, Entry("assistant", error_msg(r.exc)))
             ELSE withUser

\* Lines 138-140: the texts rendered from the transcript.
render_history(msgs) == [i \in 1..Len(msgs) |-> msgs[i].content]

\* Lines 138-168: everything the chat area shows in the run of a turn.
turn_rendered(msgs, user_input, r) ==
    LET shown == render_history(msgs) \o <<user_input>>
    IN  IF ~r.raised THEN Append(shown, r.output)
        ELSE IF except_Exception(r.exc) THEN Append(shown, error_msg(r.exc))
             ELSE shown

UserInputs == {<<"weather in ", "L", "o", "?">>, <<"hello">>}

Turn(input, pre, r) == [input |-> input, pre |-> pre, run |-> r]
NoTurn == Turn(<<>>, <<>>, RunResult(run_request(NoAgent, <<>>), FALSE, <<>>, NoExc, <<>>))

VARIABLES
    pc,           \* "boot", "halted" (RuntimeError at import), "ready", "crashed"
    environ,      \* os.environ after load_dotenv()
    fatal,        \* the RuntimeError's message, or NoFatal
    agent,        \* weather_agent
    hasMessages,  \* "messages" in st.session_state
    messages,     \* st.session_state.messages
    rendered,     \* chat texts shown by the latest script run
    turns,        \* chat turns handled so far
    last,         \* the latest chat turn: its input, the transcript before it, run_sync's result
    calls,        \* tool invocations of the latest turn (ToolSpec: of the probe)
    http,         \* requests sent to the weather provider
    event         \* the interaction the latest script run handled

vars == <<pc, environ, fatal, agent, hasMessages, messages, rendered, turns,
          last, calls, http, event>>

Init ==
    /\ pc = "boot"
    /\ environ \in [GROQ_API_KEY : EnvValues(GroqSecret),
                    OPENWEATHER_API_KEY : EnvValues(WeatherSecret)]
    /\ fatal = NoFatal
    /\ agent = NoAgent
    /\ hasMessages = FALSE
    /\ messages = <<>>
    /\ rendered = <<>>
    /\ turns = 0
    /\ last = NoTurn
    /\ calls = <<>>
    /\ http = {}
    /\ event = "none"

\* The first run of the script in a session: lines 15-27, then 43-146 with
\* no button pressed and no chat input.
FirstRun ==
    /\ pc = "boot"
    /\ fatal' = credential_check(environ)
    /\ IF fatal' # NoFatal
       THEN /\ pc' = "halted"
            /\ UNCHANGED <<agent, hasMessages, messages, rendered, event>>
       ELSE /\ pc' = "ready"
            /\ agent' = weather_agent(DefaultTemperature)
            /\ hasMessages' = TRUE
            /\ messages' = session_init(hasMessages, messages)
            /\ rendered' = render_history(messages')
            /\ event' = "load"
    /\ UNCHANGED <<environ, turns, last, calls, http>>

\* The slider is moved (line 58): the script reruns and rebuilds the agent.
MoveSlider(t) ==
    /\ pc = "ready"
    /\ t # agent.temperature
    /\ agent' = weather_agent(t)
    /\ messages' = session_init(hasMessages, messages)
    /\ rendered' = render_history(messages')
    /\ event' = "slider"
    /\ UNCHANGED <<pc, environ, fatal, hasMessages, turns, last, calls, http>>

\* "Clear chat" is pressed: lines 65-67, then the rerun st.rerun() starts
\* (lines 126-146 with the "messages" key present).
ClearChat ==
    /\ pc = "ready"
    /\ hasMessages' = TRUE
    /\ messages' = session_init(TRUE, <<>>)
    /\ rendered' = render_history(messages')
    /\ event' = "clear"
    /\ UNCHANGED <<pc, environ, fatal, agent, turns, last, calls, http>>

\* A non-empty chat submission: lines 138-171.
ChatTurn(user_input, plan, provider) ==
    /\ pc = "ready"
    /\ turns < MaxTurns
    /\ user_input # <<>>
    /\ LET key  == getenv(environ, "OPENWEATHER_API_KEY").val
           pre  == session_init(hasMessages, messages)
           r    == run_sync(agent, user_input, plan, key, provider)
       IN  /\ messages' = turn_messages(pre, user_input, r)
           /\ rendered' = turn_rendered(pre, user_input, r)
           /\ last' = Turn(user_input, pre, r)
           /\ calls' = r.invocations
           /\ http' = http \cup { weather_request(r.invocations[i].city, key) :
                                    i \in 1..Len(r.invocations) }
           /\ pc' = IF r.raised /\ ~except_Exception(r.exc) THEN "crashed" ELSE "ready"
    /\ turns' = turns + 1
    /\ event' = "turn"
    /\ UNCHANGED <<environ, fatal, agent, hasMessages>>

Next ==
    \/ FirstRun
    \/ \E t \in SliderValues : MoveSlider(t)
    \/ ClearChat
    \/ \E u \in UserInputs, p \in Plans, r \in SessionResponses : ChatTurn(u, p, r)

Spec == Init /\ [][Next]_vars

\* The runtime invokes the registered tool (line 98) with an argument of
\* its choosing against an arbitrary provider response.
ToolProbe(city, provider) ==
    /\ pc = "ready"
    /\ Len(calls) < MaxCalls
    /\ LET key == getenv(environ, "OPENWEATHER_API_KEY").val
       IN  /\ calls' = Append(calls, Invocation(city, provider,
                                 get_weather_forecast(city, key, provider)))
           /\ http' = http \cup {weather_request(city, key)}
    /\ UNCHANGED <<pc, environ, fatal, agent, hasMessages, messages, rendered,
                   turns, last, event>>

ToolNext ==
    \/ FirstRun
    \/ \E c \in Cities, r \in ProviderResponses : ToolProbe(c, r)

ToolSpec == Init /\ [][ToolNext]_vars

----------------------------------------------------------------------------
(* Properties *)

\* `sub` occurs in `text` (Python `sub in text`).
Contains(text, sub) ==
    \E i \in 1..(Len(text) + 1) :
        /\ i + Len(sub) - 1 <= Len(text)
        /\ SubSeq(text, i, i + Len(sub) - 1) = sub

\* C1: every chat turn, whether run_sync returns or raises, and from any
\* transcript (also an emptied one), leaves the transcript equal to the
\* transcript before the turn followed by one user entry holding the
\* submitted text and one assistant entry holding the answer or the error
\* text.
C1_TurnAppendsTwo ==
    [][turns' = turns + 1 =>
         LET n == Len(messages)
         IN  /\ Len(messages') = n + 2
             /\ SubSeq(messages', 1, n) = messages
             /\ messages'[n + 1] = Entry("user", last'.input)
             /\ messages'[n + 2] =
                  Entry("assistant",
                        IF last'.run.raised THEN error_msg(last'.run.exc)
                        ELSE last'.run.output)]_vars

\* A failed turn taken after a clear and an earlier turn.
C1_Witness ==
    /\ event = "turn"
    /\ last.run.raised
    /\ Len(last.pre) = 2
    /\ last.pre[1].role = "user"
    /\ Len(messages) = 4

\* C2: a new session's transcript is the one greeting entry, and after
\* "Clear chat" and its rerun the transcript is that seeded transcript again.
C2_ClearRestoresSeed ==
    /\ event = "load" => messages = Seed
    /\ event = "clear" => messages = Seed

\* C3: for every city and every response with a status other than 200,
\* whatever its body, the tool fails, never returns a record, and the
\* failure's message contains the city and, when the body has a message
\* field, that message.
C3_Non200Fails ==
    \A i \in 1..Len(calls) :
        LET c == calls[i]
        IN  (c.provider.transport = "ok" /\ c.provider.status # 200) =>
                /\ c.outcome.raised
                /\ c.outcome.value = NoForecast
                /\ Contains(c.outcome.exc.msg, c.city)
                /\ (c.provider.body.kind = "object" /\ c.provider.body.message.has) =>
                       Contains(c.outcome.exc.msg, c.provider.body.message.val)

\* C4: for every HTTP 200 response missing name, weather[0].description or
\* main.temp, the tool produces a typed failure whose message includes the
\* city; no raw lookup error crosses the tool boundary and no record is
\* returned.
C4_MalformedIsTypedFailure ==
    \A i \in 1..Len(calls) :
        LET c == calls[i]
        IN  (/\ c.provider.transport = "ok"
             /\ c.provider.status = 200
             /\ ~WellFormed(c.provider.body)) =>
                /\ c.outcome.raised
                /\ c.outcome.exc.type \notin
                       {"KeyError", "IndexError", "TypeError", "AttributeError", "JSONDecodeError"}
                /\ Contains(c.outcome.exc.msg, c.city)

\* C5: when the runtime invokes the tool during a run and the lookup fails,
\* the run still returns a string: no tool failure leaves run_sync as a
\* raised error.
C5_ToolFailureIsNarrated ==
    \A i \in 1..Len(last.run.invocations) :
        last.run.invocations[i].outcome.raised => ~last.run.raised

\* C6: no error raised by a turn's run call ends the session: it is caught,
\* rendered as a marked error message that is also the turn's assistant
\* entry, and the shell is ready for further submissions.
C6_FailedTurnKeepsSession ==
    [][turns' = turns + 1 =>
         /\ pc' = "ready"
         /\ last'.run.raised =>
              /\ messages'[Len(messages')] =
                    Entry("assistant", WarningMark \o last'.run.exc.msg)
              /\ rendered'[Len(rendered')] = WarningMark \o last'.run.exc.msg]_vars

\* A successful turn handled right after a failed one.
C6_Witness ==
    /\ pc = "ready"
    /\ turns = 2
    /\ event = "turn"
    /\ ~last.run.raised
    /\ Len(last.pre) = 3
    /\ Contains(last.pre[3].content, WarningMark)
    /\ Len(messages) = 5

\* C7: on every turn the request submitted to the runtime holds all
\* earlier transcript entries in insertion order followed by the current
\* user input.
C7_RequestCarriesHistory ==
    turns > 0 =>
        last.run.request.messages = last.pre \o <<Entry("user", last.input)>>

\* C8 (amended): with either credential unset or empty the script halts at
\* startup, before the agent is built, the transcript is seeded or any turn
\* or provider request runs; the message names a missing credential, and
\* names the weather credential when that is the only one missing.
C8_StartupHalts ==
    LET groqOk    == Truthy(getenv(environ, "GROQ_API_KEY"))
        weatherOk == Truthy(getenv(environ, "OPENWEATHER_API_KEY"))
    IN  /\ pc # "boot" => (pc = "halted" <=> ~(groqOk /\ weatherOk))
        /\ ~(groqOk /\ weatherOk) =>
              /\ ~agent.built
              /\ ~hasMessages
              /\ messages = <<>>
              /\ turns = 0
              /\ calls = <<>>
              /\ http = {}
        /\ pc = "halted" =>
              \/ ~groqOk /\ Contains(fatal, GroqName)
              \/ ~weatherOk /\ Contains(fatal, WeatherName)
        /\ (pc = "halted" /\ groqOk) => Contains(fatal, WeatherName)

\* Startup halted on an empty weather credential, naming it.
C8_Witness ==
    /\ pc = "halted"
    /\ Truthy(getenv(environ, "GROQ_API_KEY"))
    /\ getenv(environ, "OPENWEATHER_API_KEY") = Some(<<>>)
    /\ Contains(fatal, WeatherName)
    /\ ~agent.built

\* C8 as stated: as above, but the message names the weather credential
\* whenever the weather credential is missing.
C8_Original ==
    LET groqOk    == Truthy(getenv(environ, "GROQ_API_KEY"))
        weatherOk == Truthy(getenv(environ, "OPENWEATHER_API_KEY"))
    IN  /\ pc # "boot" => (pc = "halted" <=> ~(groqOk /\ weatherOk))
        /\ ~(groqOk /\ weatherOk) => (~agent.built /\ ~hasMessages /\ turns = 0 /\ http = {})
        /\ (pc = "halted" /\ ~groqOk) => Contains(fatal, GroqName)
        /\ (pc = "halted" /\ ~weatherOk) => Contains(fatal, WeatherName)

\* C9: for every well-formed HTTP 200 response the tool returns a record
\* with location equal to name, temperature_celsius equal to main.temp, and
\* description equal to the provider's with its first letter capitalized
\* and the rest unchanged; equal inputs give equal records.
C9_MapsWellFormed ==
    /\ \A i \in 1..Len(calls) :
         LET c == calls[i]
             b == c.provider.body
             d == b.description
         IN  (c.provider.transport = "ok" /\ c.provider.status = 200 /\ WellFormed(b)) =>
                /\ ~c.outcome.raised
                /\ c.outcome.value.location = b.name.val
                /\ c.outcome.value.temperature_celsius = b.temp
                /\ c.outcome.value.description =
                      (IF d = <<>> THEN <<>> ELSE <<upper(d[1])>> \o Tail(d))
    /\ \A i, j \in 1..Len(calls) :
         (calls[i].city = calls[j].city /\ calls[i].provider = calls[j].provider) =>
             calls[i].outcome = calls[j].outcome

\* C10: the weather credential goes only to the provider as appid: across
\* every turn outcome it never appears in the tool arguments or tool result
\* the runtime sees, in any rendered text, or in any transcript entry.
C10_CredentialNotExposed ==
    LET key == getenv(environ, "OPENWEATHER_API_KEY").val
    IN  pc = "ready" =>
          /\ \A q \in http : q.appid = key /\ ~Contains(q.q, key)
          /\ \A i \in 1..Len(last.run.invocations) :
               LET c == last.run.invocations[i]
               IN  /\ ~Contains(c.city, key)
                   /\ ~c.outcome.raised =>
                        /\ ~Contains(c.outcome.value.location, key)
                        /\ ~Contains(c.outcome.value.description, key)
          /\ \A i \in 1..Len(rendered) : ~Contains(rendered[i], key)
          /\ \A i \in 1..Len(messages) : ~Contains(messages[i].content, key)

====
